---------------------------- MODULE Spec2Model ----------------------------
(***************************************************************************)
(* cronexplain (src/src/index.ts): parsing, validation, explanation,       *)
(* next-run search and phrase generation of five-field cron expressions.   *)
(*                                                                         *)
(* Text is modelled as a sequence of one-character strings, so that split, *)
(* parseInt, Number and template substitution are computed as the code     *)
(* computes them.  A JavaScript number is a record [nan, n]: NaN is        *)
(* [nan |-> TRUE].  A Date is a record of its local calendar fields        *)
(* (year, month 0..11, date, hours, minutes); setters normalise overflow   *)
(* the way MakeDay/MakeTime do.  Daylight-saving shifts are not modelled:  *)
(* the calendar is the proleptic Gregorian one with 24-hour days.          *)
(***************************************************************************)
EXTENDS Integers, Sequences, FiniteSets, TLC

(***************************************************************************)
(* Bounds of the model.                                                    *)
(***************************************************************************)
MaxCount == 3
MaxTerms == 2

(***************************************************************************)
(* Characters and JavaScript numbers.                                      *)
(***************************************************************************)
DigitChars == <<"0", "1", "2", "3", "4", "5", "6", "7", "8", "9">>

UpperChars == <<"A", "B", "C", "D", "E", "F", "G", "H", "I", "J", "K", "L", "M",
                "N", "O", "P", "Q", "R", "S", "T", "U", "V", "W", "X", "Y", "Z">>

LowerChars == <<"a", "b", "c", "d", "e", "f", "g", "h", "i", "j", "k", "l", "m",
                "n", "o", "p", "q", "r", "s", "t", "u", "v", "w", "x", "y", "z">>

IsDigit(c) == \E i \in 1..10 : DigitChars[i] = c

DigitVal(c) == (CHOOSE i \in 1..10 : DigitChars[i] = c) - 1

NaN == [nan |-> TRUE, n |-> 0]

Num(k) == [nan |-> FALSE, n |-> k]

isNaN(x) == x.nan

\* The value of a string of decimal digits.
RECURSIVE DigitsValue(_)
DigitsValue(s) ==
  IF s = <<>> THEN 0
  ELSE 10 * DigitsValue(SubSeq(s, 1, Len(s) - 1)) + DigitVal(s[Len(s)])

\* The number of leading decimal digits of s.
RECURSIVE DigitPrefixLen(_)
DigitPrefixLen(s) ==
  IF s = <<>> \/ ~IsDigit(s[1]) THEN 0 ELSE 1 + DigitPrefixLen(Tail(s))

\* parseInt(s, 10): an optional sign, then the longest prefix of digits;
\* NaN when there is no digit.  (Field text holds no white space.)
parseInt(s) ==
  LET signed == s # <<>> /\ s[1] \in {"-", "+"}
      body == IF signed THEN Tail(s) ELSE s
      k == DigitPrefixLen(body)
      v == DigitsValue(SubSeq(body, 1, k))
  IN IF k = 0 THEN NaN
     ELSE IF signed /\ s[1] = "-" THEN Num(0 - v) ELSE Num(v)

\* Number(s) on the text a split on "-" can leave: the empty string is 0,
\* a string of digits, with or without a "+" before it, is its value, and
\* anything else is NaN.  (Field text here holds no ".", "e" or "0x" form.)
Number(s) ==
  IF s = <<>> THEN Num(0)
  ELSE IF DigitPrefixLen(s) = Len(s) THEN Num(DigitsValue(s))
  ELSE IF s[1] = "+" /\ Len(s) > 1 /\ DigitPrefixLen(Tail(s)) = Len(s) - 1
  THEN Num(DigitsValue(Tail(s)))
  ELSE NaN

\* String(n) for a non-negative integer.
RECURSIVE String(_)
String(k) ==
  IF k < 10 THEN <<DigitChars[k + 1]>>
  ELSE String(k \div 10) \o <<DigitChars[(k % 10) + 1]>>

includes(s, c) == \E i \in 1..Len(s) : s[i] = c

\* s.split(c) for a one-character separator.
RECURSIVE split(_, _)
split(s, c) ==
  IF ~includes(s, c) THEN <<s>>
  ELSE LET i == CHOOSE j \in 1..Len(s) :
                  s[j] = c /\ \A k \in 1..(j - 1) : s[k] # c
       IN <<SubSeq(s, 1, i - 1)>> \o split(SubSeq(s, i + 1, Len(s)), c)

toLowerCase(s) ==
  [i \in 1..Len(s) |->
     IF \E j \in 1..26 : UpperChars[j] = s[i]
     THEN LowerChars[CHOOSE j \in 1..26 : UpperChars[j] = s[i]]
     ELSE s[i]]

startsWithAt(s, i, lit) ==
  /\ i + Len(lit) - 1 <= Len(s)
  /\ \A k \in 1..Len(lit) : s[i + k - 1] = lit[k]

\* s.replace(new RegExp(name, "g"), rep): every occurrence, left to right.
RECURSIVE replaceAll(_, _, _)
replaceAll(s, name, rep) ==
  IF s = <<>> THEN <<>>
  ELSE IF startsWithAt(s, 1, name)
       THEN rep \o replaceAll(SubSeq(s, Len(name) + 1, Len(s)), name, rep)
       ELSE <<s[1]>> \o replaceAll(Tail(s), name, rep)

RECURSIVE join(_, _)
join(parts, sep) ==
  IF parts = <<>> THEN <<>>
  ELSE IF Len(parts) = 1 THEN parts[1]
  ELSE parts[1] \o sep \o join(Tail(parts), sep)

(***************************************************************************)
(* Name tables.                                                            *)
(***************************************************************************)
\* A table's entry k (from 0) is element k + 1 of the tuple.
MONTH_NAMES == <<"", "January", "February", "March", "April", "May", "June",
                 "July", "August", "September", "October", "November", "December">>

DAY_NAMES == <<"Sunday", "Monday", "Tuesday", "Wednesday", "Thursday", "Friday",
               "Saturday">>

MONTH_MAP == << [name |-> <<"j", "a", "n">>, num |-> 1],
                [name |-> <<"f", "e", "b">>, num |-> 2],
                [name |-> <<"m", "a", "r">>, num |-> 3],
                [name |-> <<"a", "p", "r">>, num |-> 4],
                [name |-> <<"m", "a", "y">>, num |-> 5],
                [name |-> <<"j", "u", "n">>, num |-> 6],
                [name |-> <<"j", "u", "l">>, num |-> 7],
                [name |-> <<"a", "u", "g">>, num |-> 8],
                [name |-> <<"s", "e", "p">>, num |-> 9],
                [name |-> <<"o", "c", "t">>, num |-> 10],
                [name |-> <<"n", "o", "v">>, num |-> 11],
                [name |-> <<"d", "e", "c">>, num |-> 12] >>

DAY_MAP == << [name |-> <<"s", "u", "n">>, num |-> 0],
              [name |-> <<"m", "o", "n">>, num |-> 1],
              [name |-> <<"t", "u", "e">>, num |-> 2],
              [name |-> <<"w", "e", "d">>, num |-> 3],
              [name |-> <<"t", "h", "u">>, num |-> 4],
              [name |-> <<"f", "r", "i">>, num |-> 5],
              [name |-> <<"s", "a", "t">>, num |-> 6] >>

RECURSIVE replaceEntries(_, _, _)
replaceEntries(result, map, i) ==
  IF i > Len(map) THEN result
  ELSE replaceEntries(replaceAll(result, map[i].name, String(map[i].num)), map, i + 1)

replaceNames(fieldText, map) == replaceEntries(toLowerCase(fieldText), map, 1)

(***************************************************************************)
(* Errors: the thrown Error, by the message template that built it.        *)
(***************************************************************************)
NoError == [kind |-> "none", part |-> <<>>, v |-> 0, min |-> 0, max |-> 0]

InvalidStep(part) == [NoError EXCEPT !.kind = "InvalidStep", !.part = part]

InvalidRange(part) == [NoError EXCEPT !.kind = "InvalidRange", !.part = part]

InvalidValue(part) == [NoError EXCEPT !.kind = "InvalidValue", !.part = part]

OutOfRange(v, min, max) ==
  [NoError EXCEPT !.kind = "OutOfRange", !.v = v, !.min = min, !.max = max]

FieldCountMismatch(n) == [NoError EXCEPT !.kind = "FieldCount", !.v = n]

(***************************************************************************)
(* parseField.                                                             *)
(***************************************************************************)
\* for (let i = start; i <= end; i += step): the values visited, in order.
\* A NaN bound makes the first comparison false.
stepLoop(start, end, step) ==
  IF isNaN(start) \/ isNaN(end) \/ start.n > end.n THEN <<>>
  ELSE [k \in 1..(((end.n - start.n) \div step) + 1) |-> start.n + (k - 1) * step]

\* The [a, b] a range text destructures to.
rangeBounds(range) ==
  LET ab == split(range, "-") IN <<Number(ab[1]), Number(ab[2])>>

\* The step branch's start and end (lines 100-110).
stepStart(range, min) ==
  IF range = <<"*">> THEN Num(min)
  ELSE IF includes(range, "-") THEN rangeBounds(range)[1]
  ELSE parseInt(range)

stepEnd(range, max) ==
  IF range # <<"*">> /\ includes(range, "-") THEN rangeBounds(range)[2]
  ELSE Num(max)

\* The step branch, lines 97-111, given the text before the "/" and the
\* parsed step.
stepPart(part, range, step, min, max) ==
  IF isNaN(step) \/ step.n <= 0
  THEN [error |-> InvalidStep(part), adds |-> <<>>]
  ELSE [error |-> NoError,
        adds |-> stepLoop(stepStart(range, min), stepEnd(range, max), step.n)]

\* The range branch, lines 113-115, given its two bounds.
rangePart(part, ab) ==
  IF isNaN(ab[1]) \/ isNaN(ab[2])
  THEN [error |-> InvalidRange(part), adds |-> <<>>]
  ELSE [error |-> NoError, adds |-> stepLoop(ab[1], ab[2], 1)]

\* The value branch, lines 117-119, given the parsed number.
valuePart(part, num) ==
  IF isNaN(num)
  THEN [error |-> InvalidValue(part), adds |-> <<>>]
  ELSE [error |-> NoError, adds |-> <<num.n>>]

\* One iteration of the loop over parts: the error thrown, or the values
\* added in the order they are added.
parsePart(part, min, max) ==
  IF part = <<"*">>
  THEN [error |-> NoError, adds |-> stepLoop(Num(min), Num(max), 1)]
  ELSE IF includes(part, "/")
  THEN stepPart(part, split(part, "/")[1], parseInt(split(part, "/")[2]), min, max)
  ELSE IF includes(part, "-")
  THEN rangePart(part, rangeBounds(part))
  ELSE valuePart(part, parseInt(part))

\* Set.add of each value one part contributes, in turn: insertion order,
\* no duplicates.  (One part's values are distinct: its loop only counts up.)
addAll(values, adds) ==
  LET isNew(v) == \A i \in 1..Len(values) : values[i] # v
  IN values \o SelectSeq(adds, isNew)

\* The values left in the order the Set holds them.
insertionOrder(values) == values

\* Array.from(values).sort((a, b) => a - b)
sortAscending(values) == SortSeq(values, LAMBDA a, b : a < b)

\* The scan of lines 124-128: the place of the first value of the list
\* outside [min, max], or 0.
firstOutOfRange(sorted, min, max) ==
  LET bad == {i \in 1..Len(sorted) : sorted[i] < min \/ sorted[i] > max}
  IN IF bad = {} THEN 0 ELSE CHOOSE i \in bad : \A j \in bad : i <= j

\* The loop over parts from part i on, with the values collected so far;
\* r is what part i gave.
RECURSIVE parseParts(_, _, _, _, _)
afterPart(parts, i, values, min, max, r) ==
  IF r.error.kind # "none" THEN [error |-> r.error, values |-> <<>>]
  ELSE parseParts(parts, i + 1, addAll(values, r.adds), min, max)

parseParts(parts, i, values, min, max) ==
  IF i > Len(parts) THEN [error |-> NoError, values |-> values]
  ELSE afterPart(parts, i, values, min, max, parsePart(parts[i], min, max))

\* Lines 124-130 on the sorted list.
rangeChecked(sorted, bad, raw, min, max) ==
  IF bad # 0
  THEN [error |-> OutOfRange(sorted[bad], min, max), values |-> <<>>, raw |-> raw]
  ELSE [error |-> NoError, values |-> sorted, raw |-> raw]

\* Lines 123-130 on what the loop over parts left.
sortedAndChecked(collected, raw, min, max) ==
  IF collected.error.kind # "none"
  THEN [error |-> collected.error, values |-> <<>>, raw |-> raw]
  ELSE rangeChecked(sortAscending(collected.values),
                    firstOutOfRange(sortAscending(collected.values), min, max),
                    raw, min, max)

parseField(raw, min, max) ==
  sortedAndChecked(parseParts(split(raw, ","), 1, <<>>, min, max), raw, min, max)

(***************************************************************************)
(* parseCron and validateCron.                                             *)
(***************************************************************************)
RECURSIVE trimStart(_)
trimStart(s) == IF s # <<>> /\ s[1] = " " THEN trimStart(Tail(s)) ELSE s

RECURSIVE trimEnd(_)
trimEnd(s) ==
  IF s # <<>> /\ s[Len(s)] = " " THEN trimEnd(SubSeq(s, 1, Len(s) - 1)) ELSE s

trim(s) == trimEnd(trimStart(s))

\* s.split(/\s+/) on trimmed text: the empty text gives one empty token.
RECURSIVE splitWhitespace(_)
splitWhitespace(s) ==
  IF ~includes(s, " ") THEN <<s>>
  ELSE LET i == CHOOSE j \in 1..Len(s) :
                  s[j] = " " /\ \A k \in 1..(j - 1) : s[k] # " "
       IN <<SubSeq(s, 1, i - 1)>> \o
          splitWhitespace(trimStart(SubSeq(s, i, Len(s))))

NoParts == [minute |-> <<>>, hour |-> <<>>, dayOfMonth |-> <<>>,
            month |-> <<>>, dayOfWeek |-> <<>>]

\* A parseCron that looks at the first five tokens and ignores any more.
cronPartsOfFirstFive(parts) ==
  IF Len(parts) < 5
  THEN [error |-> FieldCountMismatch(Len(parts)), parts |-> NoParts]
  ELSE [error |-> NoError,
        parts |-> [minute |-> parts[1],
                   hour |-> parts[2],
                   dayOfMonth |-> parts[3],
                   month |-> replaceNames(parts[4], MONTH_MAP),
                   dayOfWeek |-> replaceNames(parts[5], DAY_MAP)]]

\* Lines 135-146 on the tokens.
cronParts(parts) ==
  IF Len(parts) # 5
  THEN [error |-> FieldCountMismatch(Len(parts)), parts |-> NoParts]
  ELSE [error |-> NoError,
        parts |-> [minute |-> parts[1],
                   hour |-> parts[2],
                   dayOfMonth |-> parts[3],
                   month |-> replaceNames(parts[4], MONTH_MAP),
                   dayOfWeek |-> replaceNames(parts[5], DAY_MAP)]]

parseCron(expr) == cronParts(splitWhitespace(trim(expr)))

NoParsed == [error |-> NoError, values |-> <<>>, raw |-> <<>>]

NoFields == [error |-> NoError, minute |-> NoParsed, hour |-> NoParsed,
             dayOfMonth |-> NoParsed, month |-> NoParsed, dayOfWeek |-> NoParsed]

\* Of the five parseField calls made in order, the first error thrown is
\* the one that propagates.
fieldsParsed(all) ==
  LET failed == {i \in 1..5 : all[i].error.kind # "none"}
  IN [error |-> IF failed = {} THEN NoError
                ELSE all[CHOOSE i \in failed : \A j \in failed : i <= j].error,
      minute |-> all[1], hour |-> all[2], dayOfMonth |-> all[3],
      month |-> all[4], dayOfWeek |-> all[5]]

\* The five parseField calls every entry point makes after parseCron
\* (lines 152-156, 205-209, 258-262).
parseFields(parts) ==
  fieldsParsed(<<parseField(parts.minute, 0, 59),
                 parseField(parts.hour, 0, 23),
                 parseField(parts.dayOfMonth, 1, 31),
                 parseField(parts.month, 1, 12),
                 parseField(parts.dayOfWeek, 0, 7)>>)

withFields(parts, f) == [error |-> f.error, parts |-> parts, fields |-> f]

afterParseCron(c) ==
  IF c.error.kind # "none"
  THEN [error |-> c.error, parts |-> NoParts, fields |-> NoFields]
  ELSE withFields(c.parts, parseFields(c.parts))

\* parseCron followed by the five parseField calls.
parseExpression(expr) == afterParseCron(parseCron(expr))

validationOf(p) == [valid |-> p.error.kind = "none", error |-> p.error]

validateCron(expr) == validationOf(parseExpression(expr))

(***************************************************************************)
(* Date: local calendar fields, normalised as MakeDay and MakeTime do.     *)
(***************************************************************************)
isLeapYear(y) == (y % 4 = 0 /\ y % 100 # 0) \/ y % 400 = 0

daysInMonth(y, month) ==
  IF month = 1 THEN (IF isLeapYear(y) THEN 29 ELSE 28)
  ELSE IF month \in {3, 5, 8, 10} THEN 30
  ELSE 31

\* A date beyond the end of its month rolls into the months that follow.
RECURSIVE rollDate(_, _, _)
rollDate(y, month, date) ==
  IF date > daysInMonth(y, month)
  THEN rollDate(IF month = 11 THEN y + 1 ELSE y, (month + 1) % 12,
                date - daysInMonth(y, month))
  ELSE [year |-> y, month |-> month, date |-> date]

\* The Date whose fields, before carrying, are the given ones (none negative).
makeDate(y, month, date, h, mi) ==
  LET hh == h + (mi \div 60)
      ymd == rollDate(y + (month \div 12), month % 12, date + (hh \div 24))
  IN [year |-> ymd.year, month |-> ymd.month, date |-> ymd.date,
      hours |-> hh % 24, minutes |-> mi % 60, seconds |-> 0]

\* Days since 1970-01-01 of a calendar date (month 0..11).
dayNumber(d) ==
  LET m == d.month + 1
      y == IF m <= 2 THEN d.year - 1 ELSE d.year
      era == y \div 400
      yoe == y - era * 400
      doy == ((153 * (IF m > 2 THEN m - 3 ELSE m + 9) + 2) \div 5) + d.date - 1
      doe == yoe * 365 + (yoe \div 4) - (yoe \div 100) + doy
  IN era * 146097 + doe - 719468

\* Date.prototype.getDay: 0 is Sunday; 1970-01-01 was a Thursday.
getDay(d) == (dayNumber(d) + 4) % 7

\* setSeconds(0, 0)
setSecondsZero(d) == [d EXCEPT !.seconds = 0]

\* setMinutes(mi)
setMinutes(d, mi) ==
  [makeDate(d.year, d.month, d.date, d.hours, mi) EXCEPT !.seconds = d.seconds]

\* setHours(h, 0, 0, 0)
setHoursZero(d, h) == makeDate(d.year, d.month, d.date, h, 0)

\* setDate(date)
setDate(d, date) ==
  [makeDate(d.year, d.month, date, d.hours, d.minutes) EXCEPT !.seconds = d.seconds]

\* setMonth(month, date)
setMonth(d, month, date) ==
  [makeDate(d.year, month, date, d.hours, d.minutes) EXCEPT !.seconds = d.seconds]

\* The time order of two Dates.
dateBefore(a, b) ==
  LET da == dayNumber(a)
      db == dayNumber(b)
      ta == (a.hours * 60 + a.minutes) * 60 + a.seconds
      tb == (b.hours * 60 + b.minutes) * 60 + b.seconds
  IN da < db \/ (da = db /\ ta < tb)

(***************************************************************************)
(* getNextRuns.                                                            *)
(***************************************************************************)
maxIterations == 525960

arrayIncludes(values, v) == \E i \in 1..Len(values) : values[i] = v

\* The day-of-week values as parsed, 7 left as 7.
daysAsParsed(daysOfWeek) == {daysOfWeek[i] : i \in 1..Len(daysOfWeek)}

\* Line 265: new Set(daysOfWeek.map((d) => (d === 7 ? 0 : d)))
normalizedDays(daysOfWeek) ==
  {IF daysOfWeek[i] = 7 THEN 0 ELSE daysOfWeek[i] : i \in 1..Len(daysOfWeek)}

\* Lines 257-267: the parsed value lists, the normalised weekday set and
\* the two wildcard flags.
scheduleOf(p) ==
  [minutes |-> p.fields.minute.values,
   hours |-> p.fields.hour.values,
   daysOfMonth |-> p.fields.dayOfMonth.values,
   months |-> p.fields.month.values,
   dowSet |-> normalizedDays(p.fields.dayOfWeek.values),
   domWild |-> p.parts.dayOfMonth = <<"*">>,
   dowWild |-> p.parts.dayOfWeek = <<"*">>]

\* Lines 270-273: now, with the seconds zeroed, one minute later.
startCursor(now) ==
  LET zeroed == setSecondsZero(now) IN setMinutes(zeroed, zeroed.minutes + 1)

\* A loop test that lets one more result in.
loopConditionInclusive(res, iter, count) == Len(res) <= count /\ iter < maxIterations

loopCondition(res, iter, count) == Len(res) < count /\ iter < maxIterations

monthMisses(s, cur) == ~arrayIncludes(s.months, cur.month + 1)

hourMisses(s, cur) == ~arrayIncludes(s.hours, cur.hours)

\* A day test that looks at the day of the month only.
dayMatchMonthDayOnly(s, cur) ==
  s.domWild \/ arrayIncludes(s.daysOfMonth, cur.date)

\* Lines 300-310.
dayMatch(s, cur) ==
  IF s.domWild /\ s.dowWild THEN TRUE
  ELSE IF s.domWild THEN getDay(cur) \in s.dowSet
  ELSE IF s.dowWild THEN arrayIncludes(s.daysOfMonth, cur.date)
  ELSE arrayIncludes(s.daysOfMonth, cur.date) \/ getDay(cur) \in s.dowSet

minuteMatches(s, cur) == arrayIncludes(s.minutes, cur.minutes)

\* Lines 287-288.
afterMonthSkip(cur) == setHoursZero(setMonth(cur, cur.month + 1, 1), 0)

\* An hour advance that keeps the minute it was at.
afterHourSkipKeepingMinute(cur) ==
  setMinutes(setHoursZero(cur, cur.hours + 1), cur.minutes)

\* Lines 293-295.
afterHourSkip(cur) == setMinutes(setHoursZero(cur, cur.hours + 1), 0)

\* Lines 313-314.
afterDaySkip(cur) == setHoursZero(setDate(cur, cur.date + 1), 0)

\* Line 322.
afterMinute(cur) == setMinutes(cur, cur.minutes + 1)

\* A counter that does not count.
nextIterationStuck(iter) == iter

\* Line 279.
nextIteration(iter) == iter + 1

\* One pass through the body of the while loop.
loopBody(s, st) ==
  LET cur == st.current
      it == nextIteration(st.iterations)
  IN IF monthMisses(s, cur)
     THEN [current |-> afterMonthSkip(cur), results |-> st.results, iterations |-> it]
     ELSE IF hourMisses(s, cur)
     THEN [current |-> afterHourSkip(cur), results |-> st.results, iterations |-> it]
     ELSE IF ~dayMatch(s, cur)
     THEN [current |-> afterDaySkip(cur), results |-> st.results, iterations |-> it]
     ELSE [current |-> afterMinute(cur),
           results |-> IF minuteMatches(s, cur) THEN Append(st.results, cur)
                       ELSE st.results,
           iterations |-> it]

(***************************************************************************)
(* explainField and explainCron.  Rendered text is a sequence of pieces:   *)
(* the literal parts of a template, the names of a table, and the          *)
(* characters of substituted field text.                                   *)
(***************************************************************************)
\* What reading an absent array index gives; a template literal renders it
\* as the text "undefined".
undefined == "undefined"

\* names[k]
lookup(names, k) ==
  IF isNaN(k) \/ k.n < 0 \/ k.n >= Len(names) THEN undefined ELSE names[k.n + 1]

NoNames == <<>>

\* names ? names[parseInt(text)] : text
nameOrText(names, text) ==
  IF names = NoNames THEN text ELSE <<lookup(names, parseInt(text))>>

\* names ? names[val] || part : part
nameOrFallback(names, part) ==
  IF names = NoNames THEN part
  ELSE LET name == lookup(names, parseInt(part))
       IN IF name = undefined \/ name = "" THEN part ELSE <<name>>

\* The description pushed for one comma-separated part (lines 175-195).
describePart(part, names) ==
  IF includes(part, "/")
  THEN LET sp == split(part, "/")
           range == sp[1]
           step == sp[2]
       IN IF range = <<"*">> THEN <<"every ">> \o step
          ELSE IF includes(range, "-")
          THEN LET ab == split(range, "-")
               IN <<"every ">> \o step \o <<" from ">> \o nameOrText(names, ab[1])
                    \o <<" through ">> \o nameOrText(names, ab[2])
          ELSE <<"every ">> \o step \o <<" starting at ">> \o nameOrText(names, range)
  ELSE IF includes(part, "-")
  THEN LET ab == split(part, "-")
       IN nameOrText(names, ab[1]) \o <<" through ">> \o nameOrText(names, ab[2])
  ELSE nameOrFallback(names, part)

explainField(raw, names) ==
  IF raw = <<"*">> THEN <<"every">>
  ELSE LET parts == split(raw, ",")
       IN join([i \in 1..Len(parts) |-> describePart(parts[i], names)], <<", ">>)

\* A number in a template literal.
numberText(x) == IF isNaN(x) THEN <<"NaN">> ELSE String(x.n)

\* The map callback of lines 228-234.
hourValue(h) ==
  IF includes(h, "-") THEN h
  ELSE LET n == parseInt(h)
           ampm == IF ~isNaN(n) /\ n.n >= 12 THEN "PM" ELSE "AM"
           h12 == IF isNaN(n) THEN n
                  ELSE IF n.n = 0 THEN Num(12)
                  ELSE IF n.n > 12 THEN Num(n.n - 12)
                  ELSE n
       IN numberText(h12) \o <<":00 ", ampm>>

minuteClause(minute) ==
  IF minute = <<"*">> THEN <<"every minute">>
  ELSE IF startsWithAt(minute, 1, <<"*", "/">>)
  THEN <<"every ">> \o SubSeq(minute, 3, Len(minute)) \o <<" minutes">>
  ELSE <<"at minute ">> \o explainField(minute, NoNames)

hourClause(hour) ==
  IF hour = <<"*">> THEN <<"of every hour">>
  ELSE IF startsWithAt(hour, 1, <<"*", "/">>)
  THEN <<"every ">> \o SubSeq(hour, 3, Len(hour)) \o <<" hours">>
  ELSE LET hs == split(hour, ",")
       IN <<"at ">> \o join([i \in 1..Len(hs) |-> hourValue(hs[i])], <<", ">>)

dayOfMonthClause(dayOfMonth) == <<"on day ">> \o explainField(dayOfMonth, NoNames)

monthClause(month) == <<"in ">> \o explainField(month, MONTH_NAMES)

dayOfWeekClause(dayOfWeek) == <<"on ">> \o explainField(dayOfWeek, DAY_NAMES)

\* Lines 211-253 on the parsed parts.
explanationOf(p) ==
  IF p.error.kind # "none" THEN [error |-> p.error, text |-> <<>>]
  ELSE [error |-> NoError,
        text |-> join(<<minuteClause(p.parts.minute), hourClause(p.parts.hour)>>
                        \o (IF p.parts.dayOfMonth # <<"*">>
                            THEN <<dayOfMonthClause(p.parts.dayOfMonth)>> ELSE <<>>)
                        \o (IF p.parts.month # <<"*">>
                            THEN <<monthClause(p.parts.month)>> ELSE <<>>)
                        \o (IF p.parts.dayOfWeek # <<"*">>
                            THEN <<dayOfWeekClause(p.parts.dayOfWeek)>> ELSE <<>>),
                      <<" ">>)]

\* explainCron: the error thrown, or the pieces joined by single spaces.
explainCron(expr) == explanationOf(parseExpression(expr))

(***************************************************************************)
(* generateFromNaturalLanguage.  Each regular expression is matched as the *)
(* engine matches it: at the leftmost start position that admits a match,  *)
(* greedy quantifiers taking all they can.  A position is an index into    *)
(* the text; 0 stands for "no match".                                      *)
(***************************************************************************)
\* A literal at position i: the position after it.
lit(t, i, w) == IF i # 0 /\ startsWithAt(t, i, w) THEN i + Len(w) ELSE 0

\* \s* at position i.
RECURSIVE spaces0(_, _)
spaces0(t, i) ==
  IF i # 0 /\ i <= Len(t) /\ t[i] = " " THEN spaces0(t, i + 1) ELSE i

\* \s+ at position i.
spaces1(t, i) ==
  IF i # 0 /\ i <= Len(t) /\ t[i] = " " THEN spaces0(t, i + 1) ELSE 0

\* The position after at most n digits from position i.
RECURSIVE digitsEnd(_, _, _)
digitsEnd(t, i, n) ==
  IF n > 0 /\ i <= Len(t) /\ IsDigit(t[i]) THEN digitsEnd(t, i + 1, n - 1) ELSE i

\* x? for a literal x.
optional(t, i, w) == IF lit(t, i, w) # 0 THEN lit(t, i, w) ELSE i

\* The leftmost start position at which m[i].ok, or 0.
leftmost(m) ==
  LET hits == {i \in DOMAIN m : m[i].ok}
  IN IF hits = {} THEN 0 ELSE CHOOSE i \in hits : \A j \in hits : i <= j

NoMatch == [ok |-> FALSE, h |-> <<>>, m |-> <<>>, ap |-> <<>>, n |-> <<>>, day |-> 0]

\* (am|pm)? at position i.
amPm(t, i) ==
  IF lit(t, i, <<"a", "m">>) # 0 THEN <<"a", "m">>
  ELSE IF lit(t, i, <<"p", "m">>) # 0 THEN <<"p", "m">>
  ELSE <<>>

\* The captures of a time whose hour digits start at position a (0: none)
\* and end before hEnd, the ":dd" being required or optional.
timeFrom(t, a, hEnd, minuteRequired) ==
  LET hasMinute == /\ lit(t, hEnd, <<":">>) # 0
                   /\ digitsEnd(t, hEnd + 1, 2) = hEnd + 3
  IN IF a = 0 \/ hEnd = a \/ (minuteRequired /\ ~hasMinute) THEN NoMatch
     ELSE [NoMatch EXCEPT
             !.ok = TRUE,
             !.h = SubSeq(t, a, hEnd - 1),
             !.m = IF hasMinute THEN SubSeq(t, hEnd + 1, hEnd + 2) ELSE <<>>,
             !.ap = amPm(t, spaces0(t, IF hasMinute THEN hEnd + 3 ELSE hEnd))]

\* (\d{1,2})(?::(\d{2}))?\s*(am|pm)? at position a.
timeAt(t, a, minuteRequired) ==
  timeFrom(t, a, IF a = 0 THEN 0 ELSE digitsEnd(t, a, 2), minuteRequired)

\* \s+at\s+(\d{1,2})(?::(\d{2}))?\s*(am|pm)? at position i.
timeTail(t, i) == timeAt(t, spaces1(t, lit(t, spaces1(t, i), <<"a", "t">>)), FALSE)

\* every\s+ at position i.
everySpace(t, i) == spaces1(t, lit(t, i, <<"e", "v", "e", "r", "y">>))

\* (\d+)\s+<unit> with the digits from position a to before e.
countFrom(t, a, e, unit) ==
  IF a = 0 \/ e = a \/ lit(t, spaces1(t, e), unit) = 0 THEN NoMatch
  ELSE [NoMatch EXCEPT !.ok = TRUE, !.n = SubSeq(t, a, e - 1)]

countAt(t, a, unit) == countFrom(t, a, IF a = 0 THEN 0 ELSE digitsEnd(t, a, Len(t)), unit)

\* every\s+(\d+)\s+<unit> at position i.
everyCount(t, i, unit) == countAt(t, everySpace(t, i), unit)

\* every\s+<unit> at position i.
everyUnit(t, i, unit) == lit(t, everySpace(t, i), unit) # 0

\* The first of two attempts that matched.
firstOf(m1, m2) == IF m1.ok THEN m1 ELSE IF m2.ok THEN m2 ELSE NoMatch

\* (?:every\s+)?<word>(?:s)? followed by the time tail, at position i.
optionalEvery(t, i, word) ==
  firstOf(timeTail(t, optional(t, lit(t, everySpace(t, i), word), <<"s">>)),
          timeTail(t, optional(t, lit(t, i, word), <<"s">>)))

\* (?:every\s+day|daily) followed by the time tail, at position i.
dailyAt(t, i) ==
  firstOf(timeTail(t, lit(t, everySpace(t, i), <<"d", "a", "y">>)),
          timeTail(t, lit(t, i, <<"d", "a", "i", "l", "y">>)))

dayWords == << <<"s", "u", "n", "d", "a", "y">>,
              <<"m", "o", "n", "d", "a", "y">>,
              <<"t", "u", "e", "s", "d", "a", "y">>,
              <<"w", "e", "d", "n", "e", "s", "d", "a", "y">>,
              <<"t", "h", "u", "r", "s", "d", "a", "y">>,
              <<"f", "r", "i", "d", "a", "y">>,
              <<"s", "a", "t", "u", "r", "d", "a", "y">> >>

withDay(mt, d) == IF mt.ok THEN [mt EXCEPT !.day = d - 1] ELSE NoMatch

\* The day (1..7) named at position p, or 0.
dayNamed(t, p) ==
  IF \E d \in 1..7 : lit(t, p, dayWords[d]) # 0
  THEN CHOOSE d \in 1..7 : lit(t, p, dayWords[d]) # 0
  ELSE 0

dayTail(t, p, d) == IF d = 0 THEN NoMatch ELSE withDay(timeTail(t, lit(t, p, dayWords[d])), d)

\* (?:every\s+)?(sunday|...|saturday) followed by the time tail, at
\* position i; day is the index of the name in the list.
dayAt(t, i) ==
  firstOf(dayTail(t, everySpace(t, i), dayNamed(t, everySpace(t, i))),
          dayTail(t, i, dayNamed(t, i)))

\* at\s+(\d{1,2}):(\d{2})\s*(am|pm)? at position i.
simpleTime(t, i) == timeAt(t, spaces1(t, lit(t, i, <<"a", "t">>)), TRUE)

\* A pattern with no capture: whether text w occurs / the two words occur
\* separated by white space.
occurs(t, w) == \E i \in 1..Len(t) : lit(t, i, w) # 0

occursSpaced(t, w1, w2) == \E i \in 1..Len(t) : lit(t, spaces1(t, lit(t, i, w1)), w2) # 0

\* The match of a pattern anywhere in t: that of the leftmost start.
matchAt(m, i) == IF i = 0 THEN NoMatch ELSE m[i]

firstMatch(m) == matchAt(m, leftmost(m))

\* The 24-hour value of a matched time (pm and h < 12: +12; am and 12: 0).
hour24(mt) ==
  LET h == parseInt(mt.h).n
  IN IF mt.ap = <<"p", "m">> /\ h < 12 THEN h + 12
     ELSE IF mt.ap = <<"a", "m">> /\ h = 12 THEN 0
     ELSE h

minuteOf(mt) == IF mt.m # <<>> THEN parseInt(mt.m).n ELSE 0

\* `${m} ${h} * * <dayOfWeek>`
timedCron(mt, dayOfWeek) ==
  String(minuteOf(mt)) \o <<" ">> \o String(hour24(mt)) \o <<" ", "*", " ", "*", " ">>
    \o dayOfWeek

\* "no match": the null the function returns.
null == <<>>

\* One "if (match) return ..." of the function: whether its pattern
\* matched, and what it then returns.
returnIf(matched, cron) == [ok |-> matched, cron |-> cron]

returnTimed(mt, dayOfWeek) ==
  [ok |-> mt.ok, cron |-> IF mt.ok THEN timedCron(mt, dayOfWeek) ELSE null]

returnDay(mt) ==
  [ok |-> mt.ok, cron |-> IF mt.ok THEN timedCron(mt, String(mt.day)) ELSE null]

returnEveryMinutes(mt) ==
  [ok |-> mt.ok,
   cron |-> <<"*", "/">> \o mt.n \o <<" ", "*", " ", "*", " ", "*", " ", "*">>]

returnEveryHours(mt) ==
  [ok |-> mt.ok,
   cron |-> <<"0", " ", "*", "/">> \o mt.n \o <<" ", "*", " ", "*", " ", "*">>]

\* The first return taken, in the order of the source; null when none is.
firstReturn(returns) ==
  LET taken == {i \in 1..Len(returns) : returns[i].ok}
  IN IF taken = {} THEN null
     ELSE returns[CHOOSE i \in taken : \A j \in taken : i <= j].cron

\* Lines 331-412 on the lower-cased, trimmed text.
generateFrom(t) ==
  firstReturn(<<
    returnEveryMinutes(firstMatch([i \in 1..Len(t) |-> everyCount(t, i, <<"m", "i", "n", "u", "t", "e">>)])),
    returnEveryHours(firstMatch([i \in 1..Len(t) |-> everyCount(t, i, <<"h", "o", "u", "r">>)])),
    returnIf(\E i \in 1..Len(t) : everyUnit(t, i, <<"m", "i", "n", "u", "t", "e">>),
             <<"*", " ", "*", " ", "*", " ", "*", " ", "*">>),
    returnIf(\E i \in 1..Len(t) : everyUnit(t, i, <<"h", "o", "u", "r">>),
             <<"0", " ", "*", " ", "*", " ", "*", " ", "*">>),
    returnTimed(firstMatch([i \in 1..Len(t) |-> dailyAt(t, i)]), <<"*">>),
    returnTimed(firstMatch([i \in 1..Len(t) |-> optionalEvery(t, i, <<"w", "e", "e", "k", "d", "a", "y">>)]),
                <<"1", "-", "5">>),
    returnTimed(firstMatch([i \in 1..Len(t) |-> optionalEvery(t, i, <<"w", "e", "e", "k", "e", "n", "d">>)]),
                <<"0", ",", "6">>),
    returnDay(firstMatch([i \in 1..Len(t) |-> dayAt(t, i)])),
    returnIf(occursSpaced(t, <<"a", "t">>, <<"m", "i", "d", "n", "i", "g", "h", "t">>),
             <<"0", " ", "0", " ", "*", " ", "*", " ", "*">>),
    returnIf(occursSpaced(t, <<"a", "t">>, <<"n", "o", "o", "n">>),
             <<"0", " ", "1", "2", " ", "*", " ", "*", " ", "*">>),
    returnIf(occursSpaced(t, <<"e", "v", "e", "r", "y">>, <<"m", "o", "n", "t", "h">>) \/ occurs(t, <<"m", "o", "n", "t", "h", "l", "y">>),
             <<"0", " ", "0", " ", "1", " ", "*", " ", "*">>),
    returnIf(occursSpaced(t, <<"e", "v", "e", "r", "y">>, <<"w", "e", "e", "k">>) \/ occurs(t, <<"w", "e", "e", "k", "l", "y">>),
             <<"0", " ", "0", " ", "*", " ", "*", " ", "0">>),
    returnIf(\/ occursSpaced(t, <<"e", "v", "e", "r", "y">>, <<"y", "e", "a", "r">>)
             \/ occurs(t, <<"y", "e", "a", "r", "l", "y">>)
             \/ occurs(t, <<"a", "n", "n", "u", "a", "l", "l", "y">>),
             <<"0", " ", "0", " ", "1", " ", "1", " ", "*">>),
    returnTimed(firstMatch([i \in 1..Len(t) |-> simpleTime(t, i)]), <<"*">>) >>)

generateFromNaturalLanguage(text) == generateFrom(trim(toLowerCase(text)))

(***************************************************************************)
(* The program: main, from its parsed command line to its exit, with the   *)
(* while loop of getNextRuns as one step per iteration.                    *)
(***************************************************************************)
VARIABLES
  pc,          \* "main", "loop" (inside getNextRuns), "done"; "field", "parsed"
  args,        \* what main derives from the command line, and the clock
  out,         \* what main reports
  sched,       \* getNextRuns: the parsed value lists and wildcard flags
  current,     \* getNextRuns: the search cursor
  results,     \* getNextRuns: the instants collected
  iterations,  \* getNextRuns: the iteration counter
  fieldArgs,   \* a direct call parseField(raw, min, max): its arguments
  parsed,      \* ... and what it returned or threw
  twin         \* a second call of getNextRuns, at the same clock reading

vars == <<pc, args, out, sched, current, results, iterations, fieldArgs, parsed, twin>>

\* What main and its search leave alone.
callVars == <<fieldArgs, parsed, twin>>

NoDate == [year |-> 1970, month |-> 0, date |-> 1, hours |-> 0, minutes |-> 0,
           seconds |-> 0]

NoSchedule == [minutes |-> <<>>, hours |-> <<>>, daysOfMonth |-> <<>>, months |-> <<>>,
               dowSet |-> {}, domWild |-> FALSE, dowWild |-> FALSE]

NoOut == [kind |-> "none", exit |-> 0, error |-> NoError, cron |-> null,
          explanation |-> <<>>, valid |-> FALSE]

NoFieldArgs == [raw |-> <<>>, min |-> 0, max |-> 0]

NoTwin == [input |-> <<>>, sched |-> NoSchedule, current |-> NoDate, results |-> <<>>,
           iterations |-> 0]

(***************************************************************************)
(* Inputs.                                                                 *)
(***************************************************************************)
\* The clock readings searches start from: an ordinary Thursday morning, a
\* Sunday the 1st one minute before 09:00, the last minute of a year, and
\* the evening before a leap day.
Clocks ==
  { [year |-> 2026, month |-> 10, date |-> 5, hours |-> 10, minutes |-> 15, seconds |-> 30],
    [year |-> 2026, month |-> 10, date |-> 1, hours |-> 8, minutes |-> 59, seconds |-> 10],
    [year |-> 2027, month |-> 11, date |-> 31, hours |-> 23, minutes |-> 59, seconds |-> 0],
    [year |-> 2028, month |-> 1, date |-> 28, hours |-> 23, minutes |-> 58, seconds |-> 59] }

\* Valid expressions whose searches end by collecting count results.
SearchExpressions ==
  { <<"*", " ", "*", " ", "*", " ", "*", " ", "*">>,
    <<"*", "/", "2", "0", " ", "*", " ", "*", " ", "*", " ", "*">>,
    <<"0", " ", "9", " ", "1", " ", "*", " ", "1">>,
    <<"0", " ", "0", " ", "*", " ", "*", " ", "7">>,
    <<"0", " ", "0", " ", "*", " ", "*", " ", "0">>,
    <<"0", " ", "0", " ", "*", " ", "*", " ", "7", "/", "2">>,
    <<"0", " ", "0", " ", "1", " ", "*", " ", "5", "-", "7">>,
    <<"3", "0", " ", "2", " ", "*", " ", "*", " ", "0">>,
    <<"0", " ", "9", " ", "*", " ", "*", " ", "1", "-", "5">>,
    <<"0", " ", "0", " ", "2", "9", " ", "2", " ", "*">>,
    <<"0", " ", "0", " ", "1", " ", "1", " ", "*">>,
    <<"1", "5", ",", "4", "5", " ", "6", ",", "1", "8", " ", "*", " ", "3", " ", "*">>,
    <<"0", " ", "0", " ", "3", "1", " ", "*", " ", "*">>,
    <<"0", " ", "1", "2", " ", "*", " ", "J", "U", "N", " ", "f", "r", "i">>,
    <<"5", "9", " ", "2", "3", " ", "3", "1", " ", "1", "2", " ", "*">>,
    <<"0", " ", "0", " ", "*", " ", "*", " ", "1", ",", "7">>,
    <<"5", " ", "4", " ", "*", " ", "*", " ", "s", "u", "n">>,
    <<"0", " ", "0", " ", "1", "3", " ", "*", " ", "5">>,
    <<"0", " ", "0", " ", "7", " ", "7", " ", "7">> }

\* Texts that are not five fields, expressions with a field that does not
\* parse, and valid expressions of the less common forms.
OddExpressions ==
  { <<"*", " ", "*", " ", "*", " ", "*">>,
    <<"x", " ", "*", " ", "*", " ", "*">>,
    <<"*", " ", "*", " ", "*", " ", "*", " ", "*", " ", "*">>,
    <<"*">>,
    <<"0", " ", "2", "5", " ", "*", " ", "*", " ", "*">>,
    <<"0", " ", "0", " ", "*", " ", "*", " ", "1", "-", "7">>,
    <<"6", "0", " ", "*", " ", "*", " ", "*", " ", "*">>,
    <<"*", " ", "*", " ", "*", " ", "*", " ", "8">>,
    <<"*", "/", "0", " ", "*", " ", "*", " ", "*", " ", "*">>,
    <<"0", " ", "0", " ", "*", " ", "*", " ", "x", "-", "1">>,
    <<"0", " ", "9", " ", "*", " ", "*", " ", "1", "-", "5">>,
    <<"0", " ", "0", " ", "*", " ", "*", " ", "7">>,
    <<"0", " ", "0", " ", "*", " ", "*", " ", "7", "/", "2">>,
    <<"0", " ", "0", " ", "*", " ", "*", " ", "3", "-", "7", "/", "2">>,
    <<"0", " ", "8", "-", "1", "8", "/", "5", ",", "0", ",", "1", "2", ",", "2", "3", ",", "7", " ", "*", " ", "*", " ", "*">>,
    <<"5", " ", "1", ",", "1", "4", ",", "9", "-", "1", "7", ",", "6", "/", "4", " ", "*", " ", "*", " ", "*">> }

\* Valid expressions no instant matches: the 30th of February, an empty
\* minute list, an empty day-of-month list.
Unsatisfiable ==
  { <<"0", " ", "0", " ", "3", "0", " ", "2", " ", "*">>,
    <<"5", "-", "1", " ", "*", " ", "*", " ", "*", " ", "*">>,
    <<"0", " ", "0", " ", "1", "-", "x", "/", "2", " ", "*", " ", "*">> }

\* Phrases for --generate.
Phrases ==
  { <<"e", "v", "e", "r", "y", " ", "5", " ", "m", "i", "n", "u", "t", "e", "s">>,
    <<"e", "v", "e", "r", "y", " ", "0", " ", "m", "i", "n", "u", "t", "e", "s">>,
    <<"e", "v", "e", "r", "y", " ", "2", " ", "h", "o", "u", "r", "s">>,
    <<"e", "v", "e", "r", "y", " ", "9", "9", " ", "h", "o", "u", "r", "s">>,
    <<"e", "v", "e", "r", "y", " ", "m", "i", "n", "u", "t", "e">>,
    <<"e", "v", "e", "r", "y", " ", "h", "o", "u", "r">>,
    <<"d", "a", "i", "l", "y", " ", "a", "t", " ", "2", ":", "3", "0", "p", "m">>,
    <<"e", "v", "e", "r", "y", " ", "d", "a", "y", " ", "a", "t", " ", "2", "5">>,
    <<"e", "v", "e", "r", "y", " ", "w", "e", "e", "k", "d", "a", "y", " ", "a", "t", " ", "9", "a", "m">>,
    <<"w", "e", "e", "k", "d", "a", "y", "s", " ", "a", "t", " ", "1", "2", "a", "m">>,
    <<"e", "v", "e", "r", "y", " ", "w", "e", "e", "k", "e", "n", "d", " ", "a", "t", " ", "1", "0", "a", "m">>,
    <<"e", "v", "e", "r", "y", " ", "m", "o", "n", "d", "a", "y", " ", "a", "t", " ", "8", "a", "m">>,
    <<"f", "r", "i", "d", "a", "y", " ", "a", "t", " ", "1", "3", ":", "7", "5">>,
    <<"a", "t", " ", "m", "i", "d", "n", "i", "g", "h", "t">>,
    <<"a", "t", " ", "n", "o", "o", "n">>,
    <<"m", "o", "n", "t", "h", "l", "y">>,
    <<"e", "v", "e", "r", "y", " ", "w", "e", "e", "k">>,
    <<"a", "n", "n", "u", "a", "l", "l", "y">>,
    <<"a", "t", " ", "9", ":", "0", "5">>,
    <<"a", "t", " ", "2", "4", ":", "0", "0">>,
    <<"a", "t", " ", "7">>,
    <<"h", "e", "l", "l", "o">>,
    <<"*", " ", "*", " ", "*", " ", "*">>,
    <<"E", "v", "e", "r", "y", " ", "S", "u", "n", "d", "a", "y", " ", "a", "t", " ", "1", "2", " ", "p", "m">>,
    <<"r", "u", "n", " ", "d", "a", "i", "l", "y", " ", "a", "t", " ", "0", "7", ":", "4", "5", " ", "a", "m", " ", "p", "l", "e", "a", "s", "e">> }

Flags(g, v, j, n) ==
  [generateMode |-> g, validateOnly |-> v, jsonOutput |-> j, showNext |-> n]

\* main's view of its command line: the mode flags, the count after --next
\* (5 without one; never negative, line 450), the joined and trimmed
\* positional text (line 483),
\* and the clock reading new Date() will give.
Args(flags, nextCount, input, now) ==
  [generateMode |-> flags.generateMode, validateOnly |-> flags.validateOnly,
   jsonOutput |-> flags.jsonOutput, showNext |-> flags.showNext,
   nextCount |-> nextCount, input |-> input, now |-> now]

FirstClock == CHOOSE c \in Clocks : c.year = 2026 /\ c.date = 5

SearchArgs ==
  { Args(Flags(FALSE, FALSE, FALSE, FALSE), n, e, c) :
      n \in 0..MaxCount, e \in SearchExpressions, c \in Clocks }

ModeArgs ==
  { Args(Flags(g, v, j, n), 1, e, FirstClock) :
      g \in BOOLEAN, v \in BOOLEAN, j \in BOOLEAN, n \in BOOLEAN,
      e \in OddExpressions \cup Phrases \cup {<<>>} }

\* The modes that run no search.
NoSearchArgs ==
  { Args(f, 1, e, FirstClock) :
      f \in {Flags(FALSE, TRUE, FALSE, FALSE), Flags(FALSE, FALSE, TRUE, FALSE)},
      e \in Unsatisfiable }

InitMain(argSet) ==
  /\ pc = "main"
  /\ args \in argSet
  /\ out = NoOut
  /\ sched = NoSchedule
  /\ current = NoDate
  /\ results = <<>>
  /\ iterations = 0
  /\ fieldArgs = NoFieldArgs
  /\ parsed = NoParsed
  /\ twin = NoTwin

Init == InitMain(SearchArgs \cup ModeArgs \cup NoSearchArgs)

(***************************************************************************)
(* main (lines 490-574).                                                   *)
(***************************************************************************)
loopVars == <<sched, current, results, iterations>>

\* What --generate reports for the generated cron and what explainCron
\* gives on it.  explainCron is called outside any try, so what it throws
\* ends the process as an uncaught exception.
generateReport(cron, e) ==
  IF e.error.kind # "none"
  THEN [NoOut EXCEPT !.kind = "uncaught", !.exit = 1, !.cron = cron, !.error = e.error]
  ELSE [NoOut EXCEPT !.kind = "generated", !.cron = cron, !.explanation = e.text]

generateOutcome(cron) ==
  IF cron = null THEN [NoOut EXCEPT !.kind = "noMatch", !.exit = 1]
  ELSE generateReport(cron, explainCron(cron))

\* Lines 483-488: no positional text at all.
MainNoInput ==
  /\ pc = "main"
  /\ args.input = <<>>
  /\ out' = [NoOut EXCEPT !.kind = "noInput", !.exit = 1]
  /\ pc' = "done"
  /\ UNCHANGED <<args, loopVars, callVars>>

\* --generate: lines 490-512.
MainGenerate ==
  /\ pc = "main"
  /\ args.input # <<>>
  /\ args.generateMode
  /\ out' = generateOutcome(generateFromNaturalLanguage(args.input))
  /\ pc' = "done"
  /\ UNCHANGED <<args, loopVars, callVars>>

validateReport(r) ==
  [NoOut EXCEPT !.kind = "validated", !.valid = r.valid, !.error = r.error,
                !.exit = IF r.valid THEN 0 ELSE 1]

\* --validate: lines 514-527.
MainValidate ==
  /\ pc = "main"
  /\ args.input # <<>>
  /\ ~args.generateMode
  /\ args.validateOnly
  /\ out' = validateReport(validateCron(args.input))
  /\ pc' = "done"
  /\ UNCHANGED <<args, loopVars, callVars>>

\* The default mode given what explainCron, validateCron and getNextRuns'
\* own parse (lines 257-262) give on the input.
ExplainOutcome(e, validation, p) ==
  IF e.error.kind # "none"
  THEN /\ out' = [NoOut EXCEPT !.kind = "error", !.exit = 1, !.error = e.error]
       /\ pc' = "done"
       /\ UNCHANGED loopVars
  ELSE IF args.jsonOutput /\ ~args.showNext
  THEN /\ out' = [NoOut EXCEPT !.kind = "explained", !.valid = validation.valid,
                               !.explanation = e.text]
       /\ pc' = "done"
       /\ UNCHANGED loopVars
  ELSE /\ out' = [NoOut EXCEPT !.kind = "searching", !.valid = validation.valid,
                               !.explanation = e.text]
       /\ pc' = "loop"
       /\ sched' = scheduleOf(p)
       /\ current' = startCursor(args.now)
       /\ results' = <<>>
       /\ iterations' = 0

\* The default mode, lines 530-574, up to the entry of getNextRuns' loop:
\* explainCron and validateCron, then (unless --json without --next) the
\* set-up of the search, lines 257-276.
MainExplain ==
  /\ pc = "main"
  /\ args.input # <<>>
  /\ ~args.generateMode
  /\ ~args.validateOnly
  /\ ExplainOutcome(explainCron(args.input), validateCron(args.input),
                    parseExpression(args.input))
  /\ UNCHANGED <<args, callVars>>

(***************************************************************************)
(* The while loop of getNextRuns (lines 278-323), one iteration per step.  *)
(***************************************************************************)
InLoop == pc = "loop" /\ loopCondition(results, iterations, args.nextCount)

\* Lines 286-290.
SkipMonth ==
  /\ InLoop
  /\ monthMisses(sched, current)
  /\ iterations' = nextIteration(iterations)
  /\ current' = afterMonthSkip(current)
  /\ UNCHANGED <<pc, args, out, sched, results, callVars>>

\* Lines 292-297.
SkipHour ==
  /\ InLoop
  /\ ~monthMisses(sched, current)
  /\ hourMisses(sched, current)
  /\ iterations' = nextIteration(iterations)
  /\ current' = afterHourSkip(current)
  /\ UNCHANGED <<pc, args, out, sched, results, callVars>>

\* Lines 300-316.
SkipDay ==
  /\ InLoop
  /\ ~monthMisses(sched, current)
  /\ ~hourMisses(sched, current)
  /\ ~dayMatch(sched, current)
  /\ iterations' = nextIteration(iterations)
  /\ current' = afterDaySkip(current)
  /\ UNCHANGED <<pc, args, out, sched, results, callVars>>

\* Lines 318-322.
StepMinute ==
  /\ InLoop
  /\ ~monthMisses(sched, current)
  /\ ~hourMisses(sched, current)
  /\ dayMatch(sched, current)
  /\ iterations' = nextIteration(iterations)
  /\ results' = IF minuteMatches(sched, current) THEN Append(results, current)
                ELSE results
  /\ current' = afterMinute(current)
  /\ UNCHANGED <<pc, args, out, sched, callVars>>

\* The loop's exit and line 325; main prints the runs and returns.
ReturnRuns ==
  /\ pc = "loop"
  /\ ~loopCondition(results, iterations, args.nextCount)
  /\ pc' = "done"
  /\ out' = [out EXCEPT !.kind = "explained"]
  /\ UNCHANGED <<args, loopVars, callVars>>

Next ==
  \/ MainNoInput
  \/ MainGenerate
  \/ MainValidate
  \/ MainExplain
  \/ SkipMonth
  \/ SkipHour
  \/ SkipDay
  \/ StepMinute
  \/ ReturnRuns

Spec == Init /\ [][Next]_vars

(***************************************************************************)
(* Searches that run into the iteration ceiling.                           *)
(***************************************************************************)
LeapClock == CHOOSE c \in Clocks : c.year = 2028

CeilingArgs ==
  { Args(Flags(FALSE, FALSE, FALSE, FALSE), 1, e, LeapClock) :
      e \in { <<"0", " ", "0", " ", "3", "0", " ", "2", " ", "*">>,
              <<"5", "-", "1", " ", "*", " ", "*", " ", "*", " ", "*">> } }

InitCeiling == InitMain(CeilingArgs)

NextSearch ==
  \/ MainExplain
  \/ SkipMonth
  \/ SkipHour
  \/ SkipDay
  \/ StepMinute
  \/ ReturnRuns

SpecCeiling == InitCeiling /\ [][NextSearch]_vars

(***************************************************************************)
(* parseField called on its own.                                           *)
(***************************************************************************)
\* The bounds validateCron passes, per field (lines 152-156).
FieldBounds == { <<0, 59>>, <<0, 23>>, <<1, 31>>, <<1, 12>>, <<0, 7>> }

\* Texts a bound or a step is written with: empty, numbers inside and
\* outside the bounds, and a letter.
Atoms ==
  { <<>>,
    <<"0">>,
    <<"1">>,
    <<"3">>,
    <<"7">>,
    <<"9">>,
    <<"x">>,
    <<"1", "2">>,
    <<"2", "5">>,
    <<"4", "0">>,
    <<"6", "1">> }

\* One term of every form of the grammar, over the atoms.
OneTerm ==
  {<<"*">>}
    \cup Atoms
    \cup {a \o <<"-">> \o b : a \in Atoms, b \in Atoms}
    \cup {a \o <<"/">> \o c : a \in Atoms \cup {<<"*">>}, c \in Atoms}
    \cup {a \o <<"-">> \o b \o <<"/">> \o c : a \in Atoms, b \in Atoms, c \in Atoms}

\* The terms lists are built from.
ListTerms ==
  { <<"*">>,
    <<"3">>,
    <<"4", "0">>,
    <<"3", "0">>,
    <<"1", "-", "3">>,
    <<"9", "-", "7">>,
    <<"2", "/", "1", "0">>,
    <<"x">>,
    <<"5", "-", "8", "/", "0">>,
    <<"7">> }

\* Texts outside the grammar.
OddFields ==
  { <<"1", "-", "2", "-", "3">>,
    <<"1", "/", "2", "/", "3">>,
    <<"-">>,
    <<"/">>,
    <<"*", "/", "*">>,
    <<"*", "*">>,
    <<"1", "-", "-", "5">>,
    <<"5", "x">>,
    <<"-", "5", "/", "2">>,
    <<"*", "/", "-", "1">>,
    <<"+", "1", "-", "+", "3">>,
    <<"3", "/", "+", "2">>,
    <<"*", "-", "5">>,
    <<"0", "-", "5", "9", "/", "1", "5">>,
    <<"1", "-", "3", "1">>,
    <<"1", "0", "-", "2", "0", "0", "/", "5", "0">> }

TermLists ==
  UNION { {join(ts, <<",">>) : ts \in [1..n -> ListTerms]} : n \in 2..MaxTerms }

FieldCalls ==
  { [raw |-> r, min |-> b[1], max |-> b[2]] :
      r \in OneTerm \cup OddFields \cup TermLists, b \in FieldBounds }

InitField ==
  /\ pc = "field"
  /\ fieldArgs \in FieldCalls
  /\ parsed = NoParsed
  /\ args = Args(Flags(FALSE, FALSE, FALSE, FALSE), 0, <<>>, NoDate)
  /\ out = NoOut
  /\ sched = NoSchedule
  /\ current = NoDate
  /\ results = <<>>
  /\ iterations = 0
  /\ twin = NoTwin

\* The call returns, or throws: parsed holds which.
ParseFieldCall ==
  /\ pc = "field"
  /\ parsed' = parseField(fieldArgs.raw, fieldArgs.min, fieldArgs.max)
  /\ pc' = "parsed"
  /\ UNCHANGED <<args, out, loopVars, fieldArgs, twin>>

SpecField == InitField /\ [][ParseFieldCall]_vars

(***************************************************************************)
(* getNextRuns called on two expressions at one clock reading with one     *)
(* count: two runs of the same loop, side by side.                         *)
(***************************************************************************)
\* Expressions that write 7 in the day-of-week field.
SevenExpressions ==
  { <<"0", " ", "0", " ", "*", " ", "*", " ", "7">>,
    <<"0", " ", "0", " ", "*", " ", "*", " ", "7", "/", "2">>,
    <<"0", " ", "0", " ", "1", " ", "*", " ", "5", "-", "7">>,
    <<"0", " ", "0", " ", "*", " ", "*", " ", "1", ",", "7">>,
    <<"0", " ", "0", " ", "1", "3", " ", "*", " ", "7", ",", "3", "-", "7">>,
    <<"3", "0", " ", "6", " ", "*", " ", "*", " ", "0", "7">> }

\* Where the day-of-week field of a five-field expression starts.
dayOfWeekStart(e) ==
  CHOOSE i \in 1..Len(e) :
    /\ Cardinality({j \in 1..(i - 1) : e[j] = " "}) = 4
    /\ e[i - 1] = " "

\* The places of the day-of-week field that write 7.
sevens(e) == {i \in dayOfWeekStart(e)..Len(e) : e[i] = "7"}

\* e with 0 written at the places of z.
zeroAt(e, z) == [i \in 1..Len(e) |-> IF i \in z THEN "0" ELSE e[i]]

TwinArgs ==
  { Args(Flags(FALSE, FALSE, FALSE, FALSE), n, e, c) :
      n \in 1..MaxCount, e \in SevenExpressions, c \in Clocks }

InitTwin ==
  /\ pc = "twin"
  /\ args \in TwinArgs
  /\ \E z \in SUBSET sevens(args.input) :
       /\ z # {}
       /\ twin = [NoTwin EXCEPT !.input = zeroAt(args.input, z)]
  /\ out = NoOut
  /\ sched = NoSchedule
  /\ current = NoDate
  /\ results = <<>>
  /\ iterations = 0
  /\ fieldArgs = NoFieldArgs
  /\ parsed = NoParsed

\* Lines 257-276 of both calls; a call whose expression does not parse
\* throws, and the comparison ends.
TwinEnter(p, q) ==
  IF p.error.kind # "none" \/ q.error.kind # "none"
  THEN /\ pc' = "done"
       /\ out' = [NoOut EXCEPT !.kind = "error", !.exit = 1]
       /\ UNCHANGED <<loopVars, twin>>
  ELSE /\ pc' = "twinLoop"
       /\ out' = [NoOut EXCEPT !.kind = "searching", !.valid = TRUE]
       /\ sched' = scheduleOf(p)
       /\ current' = startCursor(args.now)
       /\ results' = <<>>
       /\ iterations' = 0
       /\ twin' = [twin EXCEPT !.sched = scheduleOf(q),
                               !.current = startCursor(args.now),
                               !.results = <<>>,
                               !.iterations = 0]

TwinStart ==
  /\ pc = "twin"
  /\ TwinEnter(parseExpression(args.input), parseExpression(twin.input))
  /\ UNCHANGED <<args, fieldArgs, parsed>>

runOf(c, r, i) == [current |-> c, results |-> r, iterations |-> i]

\* One pass of a call that is still in its loop; a call that has left it
\* stays as it is.
passOf(s, st, count) ==
  IF loopCondition(st.results, st.iterations, count) THEN loopBody(s, st) ELSE st

TwinAdvance(a, b) ==
  /\ current' = a.current
  /\ results' = a.results
  /\ iterations' = a.iterations
  /\ twin' = [twin EXCEPT !.current = b.current, !.results = b.results,
                          !.iterations = b.iterations]

\* Each call that is still in its loop makes one pass.
TwinStep ==
  /\ pc = "twinLoop"
  /\ \/ loopCondition(results, iterations, args.nextCount)
     \/ loopCondition(twin.results, twin.iterations, args.nextCount)
  /\ TwinAdvance(passOf(sched, runOf(current, results, iterations), args.nextCount),
                 passOf(twin.sched, runOf(twin.current, twin.results, twin.iterations),
                        args.nextCount))
  /\ UNCHANGED <<pc, args, out, sched, fieldArgs, parsed>>

\* Both calls have returned.
TwinReturn ==
  /\ pc = "twinLoop"
  /\ ~loopCondition(results, iterations, args.nextCount)
  /\ ~loopCondition(twin.results, twin.iterations, args.nextCount)
  /\ pc' = "twinDone"
  /\ UNCHANGED <<args, out, loopVars, callVars>>

NextTwin == TwinStart \/ TwinStep \/ TwinReturn

SpecTwin == InitTwin /\ [][NextTwin]_vars

(***************************************************************************)
(* Properties of getNextRuns, stated on the expression and the clock       *)
(* reading rather than on the loop's own tests.                            *)
(***************************************************************************)
elements(list) == {list[i] : i \in 1..Len(list)}

\* The rounded start: the clock reading with its seconds dropped, one
\* minute on.
roundedStart(now) == makeDate(now.year, now.month, now.date, now.hours, now.minutes + 1)

\* The weekday of d is in the day-of-week values, 7 read as 0.
weekdayListed(d, days) == \E v \in elements(days) : (IF v = 7 THEN 0 ELSE v) = getDay(d)

\* The rule between day-of-month and day-of-week of expression p, on day d.
dayRule(d, p) ==
  LET domStar == p.parts.dayOfMonth = <<"*">>
      dowStar == p.parts.dayOfWeek = <<"*">>
      inDom == d.date \in elements(p.fields.dayOfMonth.values)
      inDow == weekdayListed(d, p.fields.dayOfWeek.values)
  IN CASE domStar /\ dowStar -> TRUE
       [] domStar /\ ~dowStar -> inDow
       [] ~domStar /\ dowStar -> inDom
       [] OTHER -> inDom \/ inDow

\* Instant d matches all five fields of the parsed expression p.
matchesAllFields(d, p) ==
  /\ d.minutes \in elements(p.fields.minute.values)
  /\ d.hours \in elements(p.fields.hour.values)
  /\ (d.month + 1) \in elements(p.fields.month.values)
  /\ dayRule(d, p)

\* C1: every instant getNextRuns has collected for a valid expression
\* matches the minute, hour and month sets and satisfies the rule between
\* day-of-month and day-of-week (both "*": any day; one "*": the other
\* decides; neither "*": either one suffices).
C1_ResultsMatchAllFields ==
  \A k \in 1..Len(results) : matchesAllFields(results[k], parseExpression(args.input))

\* C1's case: the search of "0 9 1 * 1" has returned a Monday that is not
\* the 1st of its month.
C1_MondayNotTheFirst ==
  /\ pc = "done"
  /\ args.input = <<"0", " ", "9", " ", "1", " ", "*", " ", "1">>
  /\ \E k \in 1..Len(results) : getDay(results[k]) = 1 /\ results[k].date # 1

\* The instant of day y-mon-day at h:mi.
instant(y, mon, day, h, mi) ==
  [year |-> y, month |-> mon - 1, date |-> day, hours |-> h, minutes |-> mi, seconds |-> 0]

\* Every matching whole minute from start to last, both included, is among
\* the results rs.  Only days from start's to last's, of listed months, and
\* on them only listed hours and minutes, can match.
noneSkipped(p, start, last, rs) ==
  \A y \in start.year..last.year :
    \A mon \in elements(p.fields.month.values) :
      \A day \in 1..daysInMonth(y, mon - 1) :
        (/\ dayNumber(instant(y, mon, day, 0, 0)) >= dayNumber(start)
         /\ dayNumber(instant(y, mon, day, 0, 0)) <= dayNumber(last)
         /\ dayRule(instant(y, mon, day, 0, 0), p)) =>
          \A h \in elements(p.fields.hour.values) :
            \A mi \in elements(p.fields.minute.values) :
              (/\ matchesAllFields(instant(y, mon, day, h, mi), p)
               /\ ~dateBefore(instant(y, mon, day, h, mi), start)
               /\ ~dateBefore(last, instant(y, mon, day, h, mi)))
                => instant(y, mon, day, h, mi) \in elements(rs)

\* C2: what getNextRuns returns for a valid expression is the earliest
\* matching whole minutes at or after the rounded start, in order: the
\* results strictly increase, and no matching minute between the start and
\* the last result is missing from them.
C2_EarliestMatchesInOrder ==
  (pc = "done" /\ results # <<>>) =>
    /\ \A k \in 1..(Len(results) - 1) : dateBefore(results[k], results[k + 1])
    /\ noneSkipped(parseExpression(args.input), roundedStart(args.now),
                   results[Len(results)], results)

\* C2's case: a search that returned several runs after advancing over
\* months, hours and days (its last run is in a later year than its start).
C2_SeveralRunsAcrossYears ==
  /\ pc = "done"
  /\ Len(results) >= 2
  /\ results[Len(results)].year > args.now.year
  /\ results[1].date # args.now.date
  /\ results[1].hours # args.now.hours

\* C3: getNextRuns never holds more than count results, and none of them
\* is before the rounded start.
C3_AtMostCountNoneEarly ==
  /\ Len(results) <= args.nextCount
  /\ \A k \in 1..Len(results) : ~dateBefore(results[k], roundedStart(args.now))

\* C3's case: exactly count runs were returned and the first is the rounded
\* start itself.
C3_FullCountFromStart ==
  /\ pc = "done"
  /\ args.nextCount > 0
  /\ Len(results) = args.nextCount
  /\ results[1] = roundedStart(args.now)

\* C5: the loop of getNextRuns ends.  Every pass through it adds one to
\* the iteration counter, which never exceeds the ceiling of 525960, and
\* the loop is left exactly when count results are collected or the ceiling
\* is reached; it is then left without an error, with fewer than count
\* results if no instant matched.
C5_LoopCountsUpToCeiling ==
  [][pc = "loop" =>
       \/ /\ pc' = "loop"
          /\ iterations < maxIterations
          /\ Len(results) < args.nextCount
          /\ iterations' = iterations + 1
       \/ /\ pc' = "done"
          /\ Len(results) = args.nextCount \/ iterations = maxIterations
          /\ Len(results') <= args.nextCount
          /\ out'.kind = "explained"
          /\ out'.exit = 0
          /\ out'.error = NoError]_vars

\* C5's case: a search for the 30th of February has returned at the
\* ceiling, with fewer results than asked for and no error.
C5_CeilingReachedEmptyHanded ==
  /\ pc = "done"
  /\ args.input = <<"0", " ", "0", " ", "3", "0", " ", "2", " ", "*">>
  /\ iterations = maxIterations
  /\ Len(results) < args.nextCount
  /\ out.kind = "explained"
  /\ out.exit = 0

(***************************************************************************)
(* Properties of parseField, stated on the terms of the field text.        *)
(***************************************************************************)
termsOf(raw) == elements(split(raw, ","))

\* The values all terms of the call contribute, when each term is taken on
\* its own.
unionOfTerms(call) ==
  UNION {elements(parsePart(t, call.min, call.max).adds) : t \in termsOf(call.raw)}

noTermFails(call) ==
  \A t \in termsOf(call.raw) : parsePart(t, call.min, call.max).error.kind = "none"

outsideBounds(call) == {v \in unionOfTerms(call) : v < call.min \/ v > call.max}

\* C6: parseField fails, or returns a list that strictly increases (sorted,
\* no duplicates) and lies within [min, max]; and when no term fails on its
\* own but the union of the terms has a value outside [min, max], it fails
\* with the out-of-range error that names the smallest such value.
C6_SortedUniqueInRangeOrSmallestReported ==
  pc = "parsed" =>
    /\ parsed.error.kind = "none" =>
         /\ \A i \in 1..(Len(parsed.values) - 1) : parsed.values[i] < parsed.values[i + 1]
         /\ \A i \in 1..Len(parsed.values) :
              parsed.values[i] >= fieldArgs.min /\ parsed.values[i] <= fieldArgs.max
         /\ elements(parsed.values) = unionOfTerms(fieldArgs)
    /\ (noTermFails(fieldArgs) /\ outsideBounds(fieldArgs) # {}) =>
         /\ parsed.error.kind = "OutOfRange"
         /\ parsed.error.v \in outsideBounds(fieldArgs)
         /\ \A v \in outsideBounds(fieldArgs) : parsed.error.v <= v
         /\ parsed.error.min = fieldArgs.min
         /\ parsed.error.max = fieldArgs.max

\* C6's case: "40,30" against 0-23 has failed naming 30, the smaller of the
\* two values outside the bounds, though 40 was written first.
C6_SmallerOfTwoReported ==
  /\ pc = "parsed"
  /\ fieldArgs = [raw |-> <<"4", "0", ",", "3", "0">>, min |-> 0, max |-> 23]
  /\ parsed.error = OutOfRange(30, 0, 23)

\* Term t writes a range, alone or before a "/", one of whose two bounds
\* is not a number.
hasNonNumericBound(t) ==
  LET base == split(t, "/")[1]
  IN /\ includes(base, "-")
     /\ \E k \in 1..2 : isNaN(Number(split(base, "-")[k]))

\* C7: a field with a term whose range has a non-numeric bound, standing
\* alone (A-B) or as the base of a step (A-B/S), is never accepted by
\* parseField.
C7_NonNumericBoundRejected ==
  (pc = "parsed" /\ \E t \in termsOf(fieldArgs.raw) : hasNonNumericBound(t)) =>
    parsed.error.kind # "none"

(***************************************************************************)
(* Properties of the two calls of getNextRuns side by side.                *)
(***************************************************************************)
\* The term of a field of e that place i lies in: the text around i up to
\* the nearest comma or blank on either side.
termAround(e, i) ==
  LET breaks == {j \in 1..Len(e) : e[j] \in {" ", ","}}
      lo == IF \E j \in breaks : j < i
            THEN (CHOOSE j \in breaks : j < i /\ \A k \in breaks : k < i => k <= j) + 1
            ELSE 1
      hi == IF \E j \in breaks : j > i
            THEN (CHOOSE j \in breaks : j > i /\ \A k \in breaks : k > i => k >= j) - 1
            ELSE Len(e)
  IN SubSeq(e, lo, hi)

\* Every place where the two expressions differ lies in a term that is a
\* plain number: no range, no step.
differInPlainTermsOnly ==
  \A i \in 1..Len(args.input) :
    args.input[i] # twin.input[i] =>
      /\ ~includes(termAround(args.input, i), "-")
      /\ ~includes(termAround(args.input, i), "/")

\* C4, as stated: two valid expressions that differ only in writing 7 where
\* the other writes 0 in the day-of-week field return the same runs from
\* the same start with the same count.
C4_SevenAndZeroSameRuns ==
  pc = "twinDone" => results = twin.results

\* C4, amended: they return the same runs when every 7 that the other
\* writes as 0 is a term of its own, not a bound of a range and not the
\* base of a step.
C4_PlainSevenAndZeroSameRuns ==
  (pc = "twinDone" /\ differInPlainTermsOnly) => results = twin.results

\* C4's case: "0 0 * * 7" and "0 0 * * 0" have both returned count runs,
\* the same ones.
C4_SundayEitherWay ==
  /\ pc = "twinDone"
  /\ args.input = <<"0", " ", "0", " ", "*", " ", "*", " ", "7">>
  /\ twin.input = <<"0", " ", "0", " ", "*", " ", "*", " ", "0">>
  /\ Len(results) = args.nextCount
  /\ getDay(results[1]) = 0
  /\ results = twin.results

(***************************************************************************)
(* Properties of main's modes.                                             *)
(***************************************************************************)
\* C8: whatever generateFromNaturalLanguage returns that is not null is a
\* valid expression: validateCron accepts it, explainCron does not throw on
\* it, and --generate ends without an uncaught exception.
C8_GeneratedIsValid ==
  (pc = "done" /\ args.generateMode /\ args.input # <<>>
     /\ generateFromNaturalLanguage(args.input) # null) =>
    /\ validateCron(generateFromNaturalLanguage(args.input)).valid
    /\ explainCron(generateFromNaturalLanguage(args.input)).error.kind = "none"
    /\ out.kind = "generated"

\* The number of maximal runs of non-blank characters of t.
tokenCount(t) ==
  Cardinality({i \in 1..Len(t) : t[i] # " " /\ (i = 1 \/ t[i - 1] = " ")})

\* C9, as stated: in every mode, an input that is not five tokens fails
\* with the field-count error.
C9_FieldCountInEveryMode ==
  (pc = "done" /\ args.input # <<>> /\ tokenCount(args.input) # 5) =>
    out.error = FieldCountMismatch(tokenCount(args.input))

\* C9, amended: in validate mode and in explain mode, an input that is not
\* five tokens fails with the field-count error, which names the number of
\* tokens, whatever the tokens are; the process exits with 1.
C9_FieldCountInValidateAndExplain ==
  (pc = "done" /\ ~args.generateMode /\ args.input # <<>>
     /\ tokenCount(args.input) # 5) =>
    /\ out.error = FieldCountMismatch(tokenCount(args.input))
    /\ out.exit = 1
    /\ out.kind = IF args.validateOnly THEN "validated" ELSE "error"
    /\ ~out.valid

\* C9's case: "* * * *" in explain mode has failed with "got 4".
C9_FourFieldsExplained ==
  /\ pc = "done"
  /\ ~args.generateMode
  /\ ~args.validateOnly
  /\ args.input = <<"*", " ", "*", " ", "*", " ", "*">>
  /\ out.kind = "error"
  /\ out.error = FieldCountMismatch(4)

\* C10: the text explainCron renders never holds the result of a missing
\* table lookup.
C10_NoUndefinedInExplanation ==
  \A i \in 1..Len(out.explanation) : out.explanation[i] # undefined

(***************************************************************************)
(* Properties of the hour clause of explainCron.                           *)
(***************************************************************************)
\* Hour n on the 12-hour clock: 0 is 12:00 AM, 12 is 12:00 PM, above 12 is
\* (n - 12):00 PM, and anything else is n:00 AM.
clockForm(n) ==
  IF n = 0 THEN <<"1", "2", ":00 ", "AM">>
  ELSE IF n = 12 THEN <<"1", "2", ":00 ", "PM">>
  ELSE IF n > 12 THEN String(n - 12) \o <<":00 ", "PM">>
  ELSE String(n) \o <<":00 ", "AM">>

\* One term of the hour field: a range or a step is its own text, a single
\* hour is in clock form.
hourTermAsStated(h) ==
  IF includes(h, "-") \/ includes(h, "/") THEN h ELSE clockForm(parseInt(h).n)

\* The explanation of the parsed expression p with the hour terms rendered
\* as stated.
explanationAsStated(p) ==
  LET hs == split(p.parts.hour, ",")
  IN join(<<minuteClause(p.parts.minute),
            <<"at ">> \o join([i \in 1..Len(hs) |-> hourTermAsStated(hs[i])], <<", ">>)>>
            \o (IF p.parts.dayOfMonth # <<"*">>
                THEN <<dayOfMonthClause(p.parts.dayOfMonth)>> ELSE <<>>)
            \o (IF p.parts.month # <<"*">>
                THEN <<monthClause(p.parts.month)>> ELSE <<>>)
            \o (IF p.parts.dayOfWeek # <<"*">>
                THEN <<dayOfWeekClause(p.parts.dayOfWeek)>> ELSE <<>>),
          <<" ">>)

\* The hour field of p is neither "*" nor a "*/" step.
hourListed(p) ==
  /\ p.parts.hour # <<"*">>
  /\ ~startsWithAt(p.parts.hour, 1, <<"*", "/">>)

\* C11: when the hour field is neither "*" nor starts with "*/", the
\* explanation main prints renders every single hour of the field in
\* 12-hour clock form and passes every range and every step term (A-B,
\* A-B/S, A/S) through as its raw text.
C11_HourTermsClockOrRaw ==
  (/\ ~args.generateMode
   /\ out.kind \in {"searching", "explained"}
   /\ hourListed(parseExpression(args.input))) =>
    out.explanation = explanationAsStated(parseExpression(args.input))

=============================================================================
